---- MODULE Spec2Model ----
(***************************************************************************)
(* A model of evit's DefaultEventEmitter (EventEmitter.ts) and of          *)
(* Event.isCancellable (Event.ts).                                         *)
(*                                                                         *)
(* One emitter instance is run by a single-threaded JavaScript engine.     *)
(* `stack` is the synchronous call stack (top = last element): an emitImpl *)
(* activation whose current listener is executing, or an offImpl           *)
(* activation that is waiting for a nested emitImpl call to return.  When  *)
(* the stack is empty the event loop picks the next job: a caller issuing  *)
(* on/off/emit, or a suspended emission continuing after its `await`.      *)
(* Listeners are arbitrary user code: a listener invocation may call       *)
(* on/off/emit on the emitter, set the `cancelled` flag of the first       *)
(* argument, and then return, throw, or return a pending promise.          *)
(***************************************************************************)
EXTENDS Integers, Sequences, FiniteSets, TLC

\* ---------------------------------------------------------------- bounds
MaxLen == 3       \* entries in the listener list of event "x"
MaxAux == 2       \* entries in the listener list of every other event
MaxDepth == 4     \* activations on the call stack
MaxLive == 2      \* emissions that have not settled
MaxOps == 1       \* on/off/emit calls made by one listener invocation

\* ---------------------------------------------------------------- values
Undefined == "undefined"
Events == {"x", "", "error", "newListener", "removeListener"}
Fns == {"f", "g", "h"}
FnsOf(e) == IF e = "x" THEN {"f", "g"} ELSE {"h"}
LenBound(e) == IF e = "x" THEN MaxLen ELSE MaxAux

\* ListenerType (a const enum) and the values `type` can take
ACTIVE == "ACTIVE"
PASSIVE == "PASSIVE"
EARLY == "EARLY"
Types == {ACTIVE, PASSIVE, EARLY, "true", "false", "other"}

\* first arguments a caller passes to emit: nothing, an Event instance with
\* cancellable = true, an Event instance with cancellable = 1, an object that
\* is no Event instance but has cancellable = true
FirstArgs == {"cancellable", "one", "duck"}
NoArgs == {<<>>}
AllArgs == {<<>>} \cup {<<a>> : a \in FirstArgs}

\* The callers and listeners of one run use the events, listener types and
\* emit arguments of one scope (types and args are those used with event
\* "x") and issue at most its number of on/off/emit calls.
CallsAll == 3
CallsOrder == 4
CallsCancel == 3
CallsError == 4
CallsRemove == 5
CallsNew == 3
CallsEmpty == 4
Scopes ==
  { [name |-> "all", events |-> Events, types |-> {ACTIVE},
     args |-> NoArgs, calls |-> CallsAll],
    [name |-> "order", events |-> {"x"}, types |-> Types,
     args |-> NoArgs, calls |-> CallsOrder],
    [name |-> "cancel", events |-> {"x"}, types |-> {ACTIVE, PASSIVE},
     args |-> AllArgs, calls |-> CallsCancel],
    [name |-> "error", events |-> {"x", "error"}, types |-> {ACTIVE},
     args |-> {<<>>, <<"cancellable">>}, calls |-> CallsError],
    [name |-> "remove", events |-> {"x", "removeListener"},
     types |-> {ACTIVE, PASSIVE}, args |-> NoArgs, calls |-> CallsRemove],
    [name |-> "new", events |-> {"x", "newListener"},
     types |-> {ACTIVE, PASSIVE}, args |-> NoArgs, calls |-> CallsNew],
    [name |-> "empty", events |-> {"x", ""}, types |-> {ACTIVE},
     args |-> NoArgs, calls |-> CallsEmpty] }
TypesOf(sc, e) == IF e = "x" THEN sc.types ELSE {ACTIVE}
ArgsOf(sc, e) == IF e = "x" THEN sc.args ELSE NoArgs
Thrown == {"boom", "bang"}

Ids == 1..MaxLive

\* JavaScript truthiness of the values the model uses
Truthy(v) == v \notin {Undefined, "", "false", "0"}

Min(a, b) == IF a < b THEN a ELSE b
Top(s) == s[Len(s)]
Pop(s) == SubSeq(s, 1, Len(s) - 1)

\* Array.prototype.indexOf, 0-based, -1 when absent
IndexOf(s, x) ==
  IF \E i \in 1..Len(s) : s[i] = x
  THEN (CHOOSE i \in 1..Len(s) : s[i] = x /\ \A j \in 1..(i - 1) : s[j] # x) - 1
  ELSE -1

\* Array.prototype.splice(start, 0, item): start is clamped to the length
SpliceIn(s, start, x) ==
  LET k == Min(start, Len(s))
  IN SubSeq(s, 1, k) \o <<x>> \o SubSeq(s, k + 1, Len(s))

\* Array.prototype.splice(index, 1)
SpliceOut(s, index) == SubSeq(s, 1, index) \o SubSeq(s, index + 2, Len(s))

\* ---------------------------------------------------------------- Event.ts
InstanceOfEvent(that) == that \in {"cancellable", "one"}
CancellableOf(that) ==
  CASE that = "cancellable" -> "true"
    [] that = "one" -> "1"
    [] that = "duck" -> "true"
    [] OTHER -> Undefined

isCancellable(that) == InstanceOfEvent(that) /\ Truthy(CancellableOf(that))

\* ---------------------------------------------------------------- state
VARIABLES
  listenerMap,  \* this.listenerMap: event name -> EventListenerSet or absent
  keyOrder,     \* the keys of listenerMap in property (creation) order
  em,           \* the emitImpl activations that have not settled
  stack,        \* the synchronous call stack, top last
  settled,      \* history: the emitImpl call that settled in the last step
  owed,         \* history: entries removed minus removeListener emissions
  calls,        \* history: on/off/emit calls issued so far
  scope         \* the scope of this run

vars == <<listenerMap, keyOrder, em, stack, settled, owed, calls, scope>>

\* the (event, listener) pairs a registry entry can be
Entries == {<<e, l>> : e \in Events, l \in Fns}

\* An EventListenerSet.  `has` is whether the key exists in listenerMap.
\* tier, rank and clean are history fields the code does not have: the
\* requested type and the registration order of each entry, and whether the
\* set was only ever changed by onImpl.
NoSet ==
  [has |-> FALSE, listeners |-> <<>>, passiveIdx |-> 0,
   tier |-> <<>>, rank |-> <<>>, clean |-> TRUE]

\* An emitImpl activation.  (live, list) is the reference `set`: the set
\* that is listenerMap[ev] now, or a set that was deleted from listenerMap,
\* whose array nobody can change any more.  idx is the array iterator's
\* next index.  cancelled is the cancelled property of args[0].
\* log, mutated, flying, errs are history fields: the listeners invoked so
\* far, whether the registry changed since the call, the invocations in
\* flight, the errors passed on to emitImpl('error', ...), the listeners of
\* which an entry was added to or removed from the event since the call.
NoEm ==
  [st |-> "free", ev |-> "", args |-> <<>>, live |-> FALSE, list |-> <<>>,
   idx |-> 0, cancelled |-> FALSE,
   log |-> <<>>, mutated |-> FALSE, flying |-> 0, errs |-> 0, gone |-> {}]

NoSettled ==
  [result |-> "none", ev |-> "", args |-> <<>>, value |-> Undefined,
   had |-> FALSE, log |-> <<>>, list |-> <<>>, mutated |-> FALSE,
   broke |-> FALSE, errs |-> 0, gone |-> {}]

\* An activation on the call stack.
\* emitImpl: id is the emission; pc is "lis" while its current listener
\* executes (ops: the on/off/emit calls the listener may still make) and
\* "funnel" while the emitImpl('error', ...) call of its catch block runs.
\* offImpl: mode is the branch taken ("all", "event", "one"); arg and fn
\* are the arguments eventName and listener; (ev, live, list) is the
\* reference `set` or `listeners` (as in an emission, ev being the event
\* whose set it is); i is the loop index; keys are the keys the for-in loop
\* has not visited; pc is "loop" inside the inner loop; index is the index
\* found by indexOf.  good and twice are history fields: when off was called
\* every entry of the set was on its side of passiveIdx, and fn was in the
\* list more than once.
EmitFrame(id, pc, ops) ==
  [t |-> "emit", id |-> id, pc |-> pc, ops |-> ops, mode |-> "", arg |-> "",
   fn |-> "", ev |-> "", live |-> FALSE, list |-> <<>>, i |-> 0,
   keys |-> <<>>, index |-> 0, good |-> FALSE, twice |-> FALSE]

OffFrame(mode, arg, fn, ev) ==
  [t |-> "off", id |-> 0, pc |-> "", ops |-> 0, mode |-> mode, arg |-> arg,
   fn |-> fn, ev |-> ev, live |-> TRUE, list |-> <<>>, i |-> 0,
   keys |-> <<>>, index |-> 0, good |-> FALSE, twice |-> FALSE]

First(args) == IF args = <<>> THEN Undefined ELSE args[1]

\* the array behind a `set` or `listeners` reference
ArrayOf(map, r) == IF r.live THEN map[r.ev].listeners ELSE r.list

FreeIds(ems) == {i \in Ids : ems[i].st = "free"}

\* every activation in flight has seen the registry change
Touch(ems) ==
  [i \in Ids |-> IF ems[i].st = "free" THEN ems[i]
                 ELSE [ems[i] EXCEPT !.mutated = TRUE]]

\* the emissions of event ev in flight have seen entries of the listeners
\* in L come or go
Mark(ems, ev, L) ==
  [i \in Ids |-> IF ems[i].st # "free" /\ ems[i].ev = ev
                 THEN [ems[i] EXCEPT !.gone = @ \cup L]
                 ELSE ems[i]]

Init ==
  /\ listenerMap = [e \in Events |-> NoSet]
  /\ keyOrder = <<>>
  /\ em = [i \in Ids |-> NoEm]
  /\ stack = <<>>
  /\ settled = NoSettled
  /\ owed = [k \in Entries |-> 0]
  /\ calls = 0
  /\ scope \in Scopes

\* ------------------------------------------------- the state as a value
\* The operators below take and return the program state as a record, so
\* that one action can run a handler through all the calls it makes.
\* ok = FALSE marks a run that needs more activations than the bounds allow.
Cur ==
  [map |-> listenerMap, ko |-> keyOrder, em |-> em, stack |-> stack,
   settled |-> NoSettled, owed |-> owed, ok |-> TRUE]

Apply(S) ==
  /\ S.ok
  /\ Len(S.stack) <= MaxDepth
  /\ listenerMap' = S.map
  /\ keyOrder' = S.ko
  /\ em' = S.em
  /\ stack' = S.stack
  /\ settled' = S.settled
  /\ owed' = S.owed

\* ---------------------------------------------------------------- emitImpl
\* had: a listener was registered for the event when emitImpl was called;
\* list: the array of the set when the call settled
SettledOf(e, result, value, broke, had, list) ==
  [result |-> result, ev |-> e.ev, args |-> e.args, value |-> value,
   had |-> had, log |-> e.log, list |-> list,
   mutated |-> e.mutated, broke |-> broke, errs |-> e.errs, gone |-> e.gone]

\* `return true` (line 99): the promise of emission id is fulfilled
Resolve(S, id, broke) ==
  [S EXCEPT !.em[id] = NoEm,
            !.settled = SettledOf(S.em[id], "true", Undefined, broke, TRUE,
                                  ArrayOf(S.map, S.em[id]))]

\* Rethrow in an emitImpl that is no async function: the error also ends
\* the emitImpl activation whose catch block made the call
RethrowToCaller(S, id, error) ==
  LET R == [S EXCEPT !.em[id] = NoEm,
                     !.settled = SettledOf(S.em[id], "rejected", error, FALSE,
                                           TRUE, ArrayOf(S.map, S.em[id]))]
  IN IF R.stack # <<>> /\ Top(R.stack).t = "emit" /\ Top(R.stack).pc = "funnel"
     THEN [R EXCEPT !.em[Top(R.stack).id] = NoEm, !.stack = Pop(@)]
     ELSE R

\* `throw error` (line 90): the promise of emission id is rejected
Rethrow(S, id, error) ==
  [S EXCEPT !.em[id] = NoEm,
            !.settled = SettledOf(S.em[id], "rejected", error, FALSE, TRUE,
                                  ArrayOf(S.map, S.em[id]))]

\* the head of `for (const listener of set.listeners)` and the call
\* listener.apply(this, args) (lines 82-85): the array iterator reads the
\* live array at its next index, or the loop ends and emitImpl returns true
LoopNext(S, id) ==
  LET e == S.em[id]
      arr == ArrayOf(S.map, e)
  IN IF e.idx < Len(arr)
     THEN [S EXCEPT !.em[id] = [e EXCEPT !.st = "run", !.idx = @ + 1,
                                         !.log = Append(@, arr[e.idx + 1]),
                                         !.flying = @ + 1],
                    !.stack = Append(@, EmitFrame(id, "lis", MaxOps))]
     ELSE Resolve(S, id, FALSE)

\* `if (event && event.cancelled) break;` (lines 95-96), then the loop head
AfterListener(S, id) ==
  LET e == S.em[id]
      first == First(e.args)
      event == IF isCancellable(first) THEN first ELSE Undefined
  IN IF event # Undefined /\ e.cancelled
     THEN Resolve(S, id, TRUE)
     ELSE LoopNext(S, id)

\* EmitImpl that calls no listener before it returns its promise
EmitImplDeferred(S, eventName, args) ==
  LET set == S.map[eventName]
      fresh == [NoEm EXCEPT !.st = "ok", !.ev = eventName, !.args = args,
                            !.live = TRUE]
  IN IF ~set.has
     THEN [S EXCEPT !.settled =
             SettledOf(fresh, "false", Undefined, FALSE, FALSE, <<>>)]
     ELSE IF FreeIds(S.em) = {}
     THEN [S EXCEPT !.ok = FALSE]
     ELSE LET id == CHOOSE i \in FreeIds(S.em) : \A j \in FreeIds(S.em) : i <= j
          IN [S EXCEPT !.em[id] = fresh]

\* a call of emitImpl (lines 70-85), run up to the first listener call
EmitImpl(S, eventName, args) ==
  LET set == S.map[eventName]
      fresh == [NoEm EXCEPT !.st = "run", !.ev = eventName, !.args = args,
                            !.live = TRUE]
  IN IF ~set.has
     THEN [S EXCEPT !.settled =
             SettledOf(fresh, "false", Undefined, FALSE, FALSE, <<>>)]
     ELSE IF set.listeners = <<>>
     THEN [S EXCEPT !.settled =
             SettledOf(fresh, "true", Undefined, FALSE, FALSE, <<>>)]
     ELSE IF FreeIds(S.em) = {}
     THEN [S EXCEPT !.ok = FALSE]
     ELSE LET id == CHOOSE i \in FreeIds(S.em) : \A j \in FreeIds(S.em) : i <= j
          IN LoopNext([S EXCEPT !.em[id] = fresh], id)

\* Catch that always rethrows
CatchRethrows(S, id, error) == Rethrow(S, id, error)

\* Catch without the test `eventName === 'error'`
CatchAnyEvent(S, id, error) ==
  LET errorSet == S.map["error"]
  IN IF ~errorSet.has \/ Len(errorSet.listeners) = 0
     THEN Rethrow(S, id, error)
     ELSE EmitImpl([S EXCEPT !.em[id].st = "run", !.em[id].errs = @ + 1,
                             !.stack = Append(@, EmitFrame(id, "funnel", 0))],
                   "error", <<error>>)

\* Catch that passes every error on to emitImpl('error', error)
CatchFunnelsAlways(S, id, error) ==
  EmitImpl([S EXCEPT !.em[id].st = "run", !.em[id].errs = @ + 1,
                     !.stack = Append(@, EmitFrame(id, "funnel", 0))],
           "error", <<error>>)

\* the catch block (lines 86-93) of emission id, whose activation is not
\* on S.stack: rethrow, or call emitImpl('error', error) and go on
Catch(S, id, error) ==
  LET e == S.em[id]
      errorSet == S.map["error"]
  IN IF e.ev = "error" \/ ~errorSet.has \/ Len(errorSet.listeners) = 0
     THEN Rethrow(S, id, error)
     ELSE EmitImpl([S EXCEPT !.em[id].st = "run", !.em[id].errs = @ + 1,
                             !.stack = Append(@, EmitFrame(id, "funnel", 0))],
                   "error", <<error>>)

\* ---------------------------------------------------------------- onImpl
\* the legacy workaround (lines 157-160)
NormType(type) ==
  IF type = "true" THEN EARLY ELSE IF type = "false" THEN ACTIVE ELSE type

MaxRank(r) == IF r = <<>> THEN 0 ELSE CHOOSE m \in 0..(MaxLen + MaxAux + 1) :
                  (\E i \in 1..Len(r) : r[i] = m) /\ \A i \in 1..Len(r) : r[i] <= m

\* ranks renumbered 1..n in the same order
Dense(r) == [i \in 1..Len(r) |-> Cardinality({j \in 1..Len(r) : r[j] <= r[i]})]

\* OnSet with ACTIVE listeners appended at the end of the array
OnSetAppends(set, listener, type0) ==
  LET type == NormType(type0)
      rk == MaxRank(set.rank) + 1
  IN IF ~set.has
     THEN [has |-> TRUE, listeners |-> <<listener>>,
           passiveIdx |-> IF type = PASSIVE THEN 0 ELSE 1,
           tier |-> <<type0>>, rank |-> <<1>>, clean |-> TRUE]
     ELSE CASE type = ACTIVE ->
                 [set EXCEPT !.listeners = Append(@, listener),
                             !.passiveIdx = @ + 1,
                             !.tier = Append(@, type0),
                             !.rank = Append(@, rk)]
            [] type = EARLY ->
                 [set EXCEPT !.listeners = <<listener>> \o @,
                             !.passiveIdx = @ + 1,
                             !.tier = <<type0>> \o @,
                             !.rank = <<rk>> \o @]
            [] type = PASSIVE ->
                 [set EXCEPT !.listeners = Append(@, listener),
                             !.tier = Append(@, type0),
                             !.rank = Append(@, rk)]
            [] OTHER -> set

\* lines 163-187: the set of eventName after on(eventName, listener, type)
OnSet(set, listener, type0) ==
  LET type == NormType(type0)
      rk == MaxRank(set.rank) + 1
      at == set.passiveIdx
  IN IF ~set.has
     THEN [has |-> TRUE, listeners |-> <<listener>>,
           passiveIdx |-> IF type = PASSIVE THEN 0 ELSE 1,
           tier |-> <<type0>>, rank |-> <<1>>, clean |-> TRUE]
     ELSE CASE type = ACTIVE ->
                 [set EXCEPT !.listeners = SpliceIn(@, at, listener),
                             !.passiveIdx = @ + 1,
                             !.tier = SpliceIn(@, at, type0),
                             !.rank = SpliceIn(@, at, rk)]
            [] type = EARLY ->
                 [set EXCEPT !.listeners = <<listener>> \o @,
                             !.passiveIdx = @ + 1,
                             !.tier = <<type0>> \o @,
                             !.rank = <<rk>> \o @]
            [] type = PASSIVE ->
                 [set EXCEPT !.listeners = Append(@, listener),
                             !.tier = Append(@, type0),
                             !.rank = Append(@, rk)]
            [] OTHER -> set

\* onImpl (lines 153-193): insert, then emitImpl('newListener', ...)
OnImpl(S, eventName, listener, type) ==
  LET set == S.map[eventName]
      new == OnSet(set, listener, type)
      S1 == [S EXCEPT !.map[eventName] = new,
                      !.ko = IF set.has THEN @ ELSE Append(@, eventName),
                      !.em = IF new = set THEN @
                             ELSE Mark(Touch(@), eventName, {listener})]
  IN EmitImpl(S1, "newListener", <<eventName, listener>>)

\* ---------------------------------------------------------------- offImpl
Count(s, x) == Cardinality({i \in 1..Len(s) : s[i] = x})

\* emitImpl('removeListener', eventName, listener) as offImpl calls it
Announce(S, eventName, listener) ==
  EmitImpl([S EXCEPT !.owed[<<eventName, listener>>] = @ - 1],
           "removeListener", <<eventName, listener>>)

\* The sets of the events in D leave listenerMap (`delete`, or
\* `this.listenerMap = {}`).  The activations that hold one of them keep the
\* object: its array as it is now.
Drop(S, D) ==
  LET gone(r) == r.live /\ r.ev \in D /\ S.map[r.ev].has
      cut(r) == IF gone(r)
                THEN [r EXCEPT !.live = FALSE, !.list = S.map[r.ev].listeners]
                ELSE r
      changed == \E e \in D : S.map[e].has
  IN [S EXCEPT
        !.map = [e \in Events |-> IF e \in D THEN NoSet ELSE S.map[e]],
        !.ko = SelectSeq(S.ko, LAMBDA k : k \notin D),
        !.owed = [k \in Entries |->
                    IF k[1] \in D
                    THEN S.owed[k] + Count(S.map[k[1]].listeners, k[2])
                    ELSE S.owed[k]],
        !.em = [i \in Ids |->
                  IF S.em[i].st = "free" THEN S.em[i]
                  ELSE [cut(S.em[i]) EXCEPT
                          !.mutated = @ \/ changed,
                          !.gone = IF S.em[i].ev \in D
                                   THEN @ \cup {S.map[S.em[i].ev].listeners[k] :
                                          k \in 1..Len(S.map[S.em[i].ev].listeners)}
                                   ELSE @]],
        !.stack = [k \in 1..Len(S.stack) |->
                     IF S.stack[k].t = "off" THEN cut(S.stack[k])
                     ELSE S.stack[k]]]

\* the keys a for-in loop still visits: deleted keys are skipped, and a key
\* whose array is empty has no loop body to run
RECURSIVE SkipKeys(_, _)
SkipKeys(map, keys) ==
  IF keys = <<>> THEN <<>>
  ELSE IF map[Head(keys)].has /\ map[Head(keys)].listeners # <<>> THEN keys
  ELSE SkipKeys(map, Tail(keys))

\* lines 144-147, after emitImpl('removeListener', ...) has returned
OffOneRest(S, f) ==
  LET n == Len(ArrayOf(S.map, f))
  IN IF n = 0
     THEN Drop(S, {f.ev})
     ELSE IF f.live /\ f.index < S.map[f.ev].passiveIdx
     THEN [S EXCEPT !.map[f.ev].passiveIdx = @ - 1, !.em = Touch(@)]
     ELSE S

\* One step of the offImpl activation on top of S.stack: the next
\* emitImpl('removeListener', ...) call of its loop, or the rest of the
\* handler after the last one.
RunOff(S) ==
  LET n == Len(S.stack)
      f == S.stack[n]
      rest == [S EXCEPT !.stack = Pop(@)]
      arr == ArrayOf(S.map, f)
  IN CASE f.mode = "one" -> OffOneRest(rest, f)
       [] f.mode = "event" ->
            IF f.i < Len(arr)
            THEN Announce([S EXCEPT !.stack[n].i = f.i + 1],
                          f.ev, arr[f.i + 1])
            ELSE Drop(rest, {f.arg})
       [] f.mode = "all" ->
            IF f.pc = "loop" /\ f.i < Len(arr)
            THEN Announce([S EXCEPT !.stack[n].i = f.i + 1],
                          f.ev, arr[f.i + 1])
            ELSE LET ks == SkipKeys(S.map, f.keys)
                 IN IF ks = <<>>
                    THEN Drop(rest, Events)
                    ELSE Announce(
                           [S EXCEPT !.stack[n] =
                              [f EXCEPT !.pc = "loop", !.ev = Head(ks),
                                        !.live = TRUE, !.list = <<>>,
                                        !.i = 1, !.keys = Tail(ks)]],
                           Head(ks), S.map[Head(ks)].listeners[1])

\* every entry is on its side of passiveIdx: the entries registered as
\* PASSIVE at passiveIdx and after it, the others before it
Sided(set) ==
  \A i \in 1..Len(set.listeners) :
    (i - 1 < set.passiveIdx) <=> (NormType(set.tier[i]) # PASSIVE)

\* offImpl (lines 102-151) up to its first emitImpl call or its return
OffImpl(S, eventName, listener) ==
  LET set == S.map[eventName]
      index == IndexOf(set.listeners, listener)
      cut == [set EXCEPT !.listeners = SpliceOut(@, index),
                         !.tier = SpliceOut(@, index),
                         !.rank = Dense(SpliceOut(@, index)),
                         !.clean = FALSE]
  IN IF ~Truthy(eventName)
     THEN RunOff([S EXCEPT !.stack = Append(@,
            [OffFrame("all", eventName, listener, "") EXCEPT
               !.live = FALSE, !.keys = S.ko])])
     ELSE IF ~Truthy(listener)
     THEN IF ~set.has THEN S
          ELSE RunOff([S EXCEPT !.stack = Append(@,
                 OffFrame("event", eventName, listener, eventName))])
     ELSE IF ~set.has \/ index = -1 THEN S
     ELSE Announce(
            [S EXCEPT !.map[eventName] = cut,
                      !.em = Mark(Touch(@), eventName, {listener}),
                      !.owed[<<eventName, listener>>] = @ + 1,
                      !.stack = Append(@,
                        [OffFrame("one", eventName, listener, eventName)
                           EXCEPT !.index = index, !.good = Sided(set),
                                  !.twice = Count(set.listeners, listener) >= 2])],
            eventName, set.listeners[index + 1])

\* ---------------------------------------------------------------- actions
\* Who can call on/off/emit now: a caller when the stack is empty, or the
\* listener that is executing.
Running == stack # <<>> /\ Top(stack).t = "emit" /\ Top(stack).pc = "lis"

CanCall ==
  /\ calls < scope.calls
  /\ stack = <<>> \/ (Running /\ Top(stack).ops > 0)

Charged ==
  [Cur EXCEPT !.stack = IF stack = <<>> THEN stack
                        ELSE [stack EXCEPT ![Len(stack)].ops = @ - 1]]

\* on / addListener / addPassiveListener / prependListener
On(eventName, listener, type) ==
  /\ CanCall
  /\ Len(listenerMap[eventName].listeners) < LenBound(eventName)
  /\ Apply(OnImpl(Charged, eventName, listener, type))
  /\ calls' = calls + 1
  /\ UNCHANGED scope

\* off / removeListener / removeAllListeners
Off(eventName, listener) ==
  /\ CanCall
  /\ Apply(OffImpl(Charged, eventName, listener))
  /\ calls' = calls + 1
  /\ UNCHANGED scope

\* emit
Emit(eventName, args) ==
  /\ CanCall
  /\ Apply(EmitImpl(Charged, eventName, args))
  /\ calls' = calls + 1
  /\ UNCHANGED scope

\* the listener that is executing sets args[0].cancelled = true
Cancel ==
  /\ Running
  /\ LET id == Top(stack).id
     IN /\ First(em[id].args) \in FirstArgs
        /\ ~em[id].cancelled
        /\ em' = [em EXCEPT ![id].cancelled = TRUE]
  /\ settled' = NoSettled
  /\ UNCHANGED <<listenerMap, keyOrder, stack, owed, calls, scope>>

\* the listener returns a value that is no pending promise: emitImpl
\* suspends at its await and returns its promise to its caller
Return ==
  /\ Running
  /\ LET id == Top(stack).id
     IN Apply([Cur EXCEPT !.stack = Pop(@), !.em[id].st = "ok",
                          !.em[id].flying = @ - 1])
  /\ UNCHANGED <<calls, scope>>

\* the listener returns a pending promise
ReturnPromise ==
  /\ Running
  /\ LET id == Top(stack).id
     IN Apply([Cur EXCEPT !.stack = Pop(@), !.em[id].st = "pending"])
  /\ UNCHANGED <<calls, scope>>

\* the listener throws: the catch block runs in the same activation
Throw(error) ==
  /\ Running
  /\ LET id == Top(stack).id
     IN Apply(Catch([Cur EXCEPT !.stack = Pop(@), !.em[id].flying = @ - 1],
                    id, error))
  /\ UNCHANGED <<calls, scope>>

\* Awaited without waiting for a pending promise
AwaitedAtOnce(e) == e.st \in {"ok", "pending"}

\* the awaited value of emission e is there
Awaited(e) == e.st = "ok"

\* emitImpl continues after `await` on a value that was no pending promise
Resume(id) ==
  /\ stack = <<>>
  /\ Awaited(em[id])
  /\ Apply(AfterListener(Cur, id))
  /\ UNCHANGED <<calls, scope>>

\* the promise a listener returned is fulfilled, emitImpl continues
Fulfil(id) ==
  /\ stack = <<>>
  /\ em[id].st = "pending"
  /\ Apply(AfterListener([Cur EXCEPT !.em[id].flying = @ - 1], id))
  /\ UNCHANGED <<calls, scope>>

\* the promise a listener returned is rejected, the catch block runs
Reject(id, error) ==
  /\ stack = <<>>
  /\ em[id].st = "pending"
  /\ Apply(Catch([Cur EXCEPT !.em[id].flying = @ - 1], id, error))
  /\ UNCHANGED <<calls, scope>>

\* emitImpl('error', error) has returned to the catch block
AfterFunnel ==
  /\ stack # <<>>
  /\ Top(stack).t = "emit"
  /\ Top(stack).pc = "funnel"
  /\ Apply(AfterListener([Cur EXCEPT !.stack = Pop(@)], Top(stack).id))
  /\ UNCHANGED <<calls, scope>>

\* emitImpl('removeListener', ...) has returned to offImpl
OffStep ==
  /\ stack # <<>>
  /\ Top(stack).t = "off"
  /\ Apply(RunOff(Cur))
  /\ UNCHANGED <<calls, scope>>

Next ==
  \/ \E e \in scope.events : \E l \in FnsOf(e) : \E t \in TypesOf(scope, e) :
       On(e, l, t)
  \/ \E e \in scope.events \cup {Undefined} :
       \E l \in {Undefined} \cup (IF e \in Events THEN FnsOf(e) ELSE {}) :
         Off(e, l)
  \/ \E e \in scope.events : \E a \in ArgsOf(scope, e) : Emit(e, a)
  \/ Cancel
  \/ Return
  \/ ReturnPromise
  \/ \E v \in Thrown : Throw(v)
  \/ \E id \in Ids : Resume(id)
  \/ \E id \in Ids : Fulfil(id)
  \/ \E id \in Ids : \E v \in Thrown : Reject(id, v)
  \/ AfterFunnel
  \/ OffStep

Spec == Init /\ [][Next]_vars

\* ================================================================ claims
IsPrefix(s, t) == Len(s) <= Len(t) /\ s = SubSeq(t, 1, Len(s))
NoErrorListener(map) == ~map["error"].has \/ map["error"].listeners = <<>>

\* The emission id handles the value v that its listener threw or rejected
\* with, in this step.
Handles(id, v) ==
  \/ Running /\ Top(stack).id = id /\ Throw(v)
  \/ Reject(id, v)

\* C1: an emit call that resolves resolves true exactly when a listener was
\* registered for its event when it was called, and with no listener
\* registered it resolves false and has invoked nobody.
C1_ResolvesTrueIffListener ==
  settled.result # "none" =>
    /\ settled.result \in {"true", "false"} =>
         (settled.result = "true" <=> settled.had)
    /\ ~settled.had =>
         settled.result = "false" /\ settled.log = <<>> /\ settled.errs = 0

\* the documented meaning of the `type` argument of on
DocTier(t) == IF t = "true" THEN EARLY ELSE IF t = "false" THEN ACTIVE ELSE t
Block(t) ==
  CASE DocTier(t) = EARLY -> 1 [] DocTier(t) = ACTIVE -> 2 [] OTHER -> 3

\* EARLY entries, latest first, then ACTIVE entries, then PASSIVE entries,
\* each in registration order
TierOrdered(set) ==
  \A i, j \in 1..Len(set.listeners) :
    i < j =>
      \/ Block(set.tier[i]) < Block(set.tier[j])
      \/ /\ Block(set.tier[i]) = Block(set.tier[j])
         /\ IF Block(set.tier[i]) = 1 THEN set.rank[i] > set.rank[j]
            ELSE set.rank[i] < set.rank[j]

\* the set was built by on calls alone, each with a valid type
OnlyOn(set) ==
  set.has /\ set.clean /\ \A i \in 1..Len(set.tier) : set.tier[i] # "other"

\* C2: a listener list built by on calls alone is ordered by tier (EARLY
\* latest first, ACTIVE and PASSIVE in registration order), and an emission
\* during which the registry did not change invoked the listeners in the
\* order of the list.
C2_TierOrder ==
  /\ \A e \in Events : OnlyOn(listenerMap[e]) => TierOrdered(listenerMap[e])
  /\ settled.result \in {"true", "rejected"} /\ ~settled.mutated =>
       /\ IsPrefix(settled.log, settled.list)
       /\ settled.result = "true" /\ ~settled.broke =>
            settled.log = settled.list

C2_Witness ==
  /\ settled.result = "true" /\ ~settled.mutated /\ ~settled.broke
  /\ Len(settled.log) = 3
  /\ settled.ev = "x"
  /\ OnlyOn(listenerMap["x"])
  /\ {Block(listenerMap["x"].tier[i]) : i \in 1..3} = {1, 2, 3}
  /\ listenerMap["x"].tier[1] = "true"

\* C3: no emission ever has two listener invocations in flight.
C3_OneAtATime == \A id \in Ids : em[id].flying <= 1

C3_Witness ==
  \E id, other \in Ids :
    /\ id # other
    /\ em[id].st = "pending" /\ Len(em[id].log) >= 2 /\ em[id].flying = 1
    /\ em[other].st = "pending" /\ em[other].mutated

\* C4: an emission of "error", or an emission handling a throw while no
\* listener is registered for "error", rejects with the thrown value,
\* invokes no further listener and starts no "error" emission.
C4_Rethrows ==
  [][\A id \in Ids : \A v \in Thrown :
       Handles(id, v) /\ (em[id].ev = "error" \/ NoErrorListener(listenerMap)) =>
         /\ settled'.result = "rejected"
         /\ settled'.value = v
         /\ settled'.ev = em[id].ev
         /\ settled'.log = em[id].log
         /\ em' = [em EXCEPT ![id] = NoEm]]_vars

C4_Witness ==
  /\ settled.result = "rejected" /\ settled.ev = "error"
  /\ settled.value = "bang"
  /\ ~NoErrorListener(listenerMap)
  /\ Len(settled.list) > Len(settled.log)

\* The catch block of emission id has called emitImpl('error', v), which
\* has invoked the first "error" listener with v; emission id has not
\* settled.
Funneled(id, v) ==
  /\ em'[id].st = "run"
  /\ em'[id].log = em[id].log
  /\ settled' = NoSettled
  /\ \E j \in Ids \ {id} :
       /\ em[j].st = "free"
       /\ em'[j].ev = "error"
       /\ em'[j].args = <<v>>
       /\ em'[j].log = <<listenerMap["error"].listeners[1]>>
       /\ em'[j].flying = 1

\* Emission id goes on with its loop in this step: it invokes the entry at
\* its iterator's index, or with no entry left it resolves true.
GoesOn(id) ==
  LET e == em[id]
      arr == ArrayOf(listenerMap, e)
  IN IF e.idx < Len(arr)
     THEN em'[id].st = "run" /\ em'[id].log = Append(e.log, arr[e.idx + 1])
     ELSE settled'.result = "true" /\ settled'.ev = e.ev /\ em'[id] = NoEm

\* Emission id stops in this step and resolves true.
StopsTrue(id) ==
  /\ settled'.result = "true"
  /\ settled'.ev = em[id].ev
  /\ settled'.log = em[id].log
  /\ em'[id] = NoEm

IsSignal(that) == InstanceOfEvent(that) /\ CancellableOf(that) = "true"

\* C6: when a listener has returned successfully and the first argument is
\* a cancellable signal (an Event with cancellable === true) whose
\* cancelled flag is set, the emission invokes no further listener and
\* resolves true; with any other first argument the emission goes on.
C6_OnlySignalsCancel ==
  [][\A id \in Ids :
       Resume(id) \/ Fulfil(id) =>
         IF IsSignal(First(em[id].args)) /\ em[id].cancelled
         THEN StopsTrue(id)
         ELSE IF IsSignal(First(em[id].args)) THEN TRUE
         ELSE GoesOn(id)]_vars

\* C7: the removeListener emissions of off are one-to-one with the entries
\* that left the registry: when no call is in progress, every removed
\* entry was announced exactly once and nothing else was announced.
C7_RemovalsAnnouncedOnce ==
  stack = <<>> => \A k \in Entries : owed[k] = 0

\* This step is a step of off called with the event name e.
OffStepOf(e) ==
  \/ \E l \in Fns \cup {Undefined} : Off(e, l)
  \/ stack # <<>> /\ Top(stack).t = "off" /\ Top(stack).arg = e /\ OffStep

SetOf(map, e) == <<map[e].has, map[e].listeners, map[e].passiveIdx>>

\* C8: off called with an event name, the empty string included, changes
\* the ListenerSet of no other event.
C8_OffTouchesOneEvent ==
  [][\A e \in Events :
       OffStepOf(e) =>
         \A o \in Events \ {e} : SetOf(listenerMap', o) = SetOf(listenerMap, o)]_vars

\* C9: registering a listener that is registered already adds a second
\* entry; off(event, listener) removes the first of them only, and when it
\* returns the other entry is in the list, on its own side of passiveIdx.
C9_DuplicateEntries ==
  [][\A e \in Events : \A l \in Fns :
       /\ \A t \in Types \ {"other"} :
            On(e, l, t) =>
              Count(listenerMap'[e].listeners, l) =
                Count(listenerMap[e].listeners, l) + 1
       /\ Off(e, l) /\ Truthy(e) /\ Count(listenerMap[e].listeners, l) >= 2 =>
            /\ listenerMap'[e].listeners =
                 SpliceOut(listenerMap[e].listeners,
                           IndexOf(listenerMap[e].listeners, l))
            /\ Count(listenerMap'[e].listeners, l) =
                 Count(listenerMap[e].listeners, l) - 1
       /\ ( /\ stack # <<>>
            /\ Top(stack).t = "off" /\ Top(stack).mode = "one"
            /\ Top(stack).arg = e /\ Top(stack).fn = l
            /\ Top(stack).good /\ Top(stack).twice /\ Top(stack).live
            /\ OffStep
            /\ listenerMap'[e].has ) =>
            \A i \in 1..Len(listenerMap'[e].listeners) :
              listenerMap'[e].listeners[i] = l =>
                ((i - 1 < listenerMap'[e].passiveIdx)
                   <=> (NormType(listenerMap'[e].tier[i]) # PASSIVE))]_vars

\* C10: a call of emit on an event that has listeners has invoked the first
\* listener of the list, with the arguments of the call and once, when it
\* returns; the emission is suspended behind that one invocation.
C10_FirstListenerAtOnce ==
  [][/\ \A e \in Events : \A a \in AllArgs :
          Emit(e, a) /\ listenerMap[e].listeners # <<>> =>
            \E id \in Ids :
              /\ em[id].st = "free"
              /\ em'[id].ev = e
              /\ em'[id].args = a
              /\ em'[id].log = <<listenerMap[e].listeners[1]>>
              /\ stack' # <<>>
              /\ Top(stack') = EmitFrame(id, "lis", MaxOps)
     /\ \A id \in Ids :
          Running /\ Top(stack).id = id /\ em[id].idx = 1
                  /\ (Return \/ ReturnPromise) =>
            /\ em'[id].log = em[id].log
            /\ Len(em'[id].log) = 1
            /\ em'[id].st \in {"ok", "pending"}]_vars

C10_Witness ==
  /\ stack = <<>>
  /\ \E id, j \in Ids :
       /\ em[id].ev = "x" /\ em[id].st = "ok" /\ em[id].log = <<"g">>
       /\ em[j].ev = "" /\ em[j].st = "ok" /\ em[j].log = <<"h">>
       /\ ~em[id].mutated /\ ~em[j].mutated

\* C11: an emission that resolved true while the registry did not change
\* has invoked every PASSIVE entry of its list, after every ACTIVE and EARLY
\* entry, also when an earlier listener set the cancelled flag.
C11_PassiveAlwaysCalled ==
  LET set == listenerMap[settled.ev]
  IN settled.result = "true" /\ settled.had /\ ~settled.mutated /\ OnlyOn(set) =>
       \A i \in 1..Len(settled.list) :
         NormType(set.tier[i]) = PASSIVE =>
           /\ i <= Len(settled.log)
           /\ settled.log[i] = settled.list[i]
           /\ \A j \in 1..Len(settled.list) :
                NormType(set.tier[j]) # PASSIVE => j < i

\* the entries of a list that were not registered as PASSIVE
NonPassive(set) ==
  Cardinality({i \in 1..Len(set.listeners) : NormType(set.tier[i]) # PASSIVE})

\* C12: whenever a caller or a listener can look at the registry, in every
\* set passiveIdx is the number of ACTIVE and EARLY entries, which are the
\* entries before passiveIdx.
C12_PassiveIdxInvariant ==
  stack = <<>> \/ Running =>
    \A e \in Events :
      listenerMap[e].has =>
        /\ listenerMap[e].passiveIdx = NonPassive(listenerMap[e])
        /\ Sided(listenerMap[e])

\* The offImpl activation f, which has spliced its listener out (line 143),
\* has a registry write left to do as the registry is now: the deletion of
\* the empty set (line 145) or the passiveIdx adjustment (line 147).
WriteLeft(f) ==
  /\ f.t = "off" /\ f.mode = "one" /\ f.live
  /\ \/ listenerMap[f.ev].listeners = <<>>
     \/ f.index < listenerMap[f.ev].passiveIdx

\* C13: no listener runs between the first and the last registry write of
\* an on or off call: no listener is executing above an offImpl activation
\* that has written to the registry and has a write left to do.
C13_OnOffAtomic ==
  \A k \in 1..(Len(stack) - 1) :
    stack[k + 1].t = "emit" /\ stack[k + 1].pc = "lis" => ~WriteLeft(stack[k])

\* C14: whenever a caller or a listener can look at the registry, no key
\* of listenerMap holds a set with an empty listener list.
C14_NoEmptySet ==
  stack = <<>> \/ Running =>
    \A e \in Events : listenerMap[e].has => listenerMap[e].listeners # <<>>

\* Emission id invokes a listener in this step.
Invokes(id) ==
  /\ em'[id].st # "free"
  /\ Len(em'[id].log) = Len(em[id].log) + 1

\* C15: a removal is visible to the emissions in flight: the listener an
\* emission invokes is, at that moment, registered for the event of the
\* emission, whether other entries were removed by off(e, f), off(e) or
\* off().
C15_RemovedNotInvoked ==
  [][\A id \in Ids :
       Invokes(id) =>
         LET e == em'[id]
         IN Count(listenerMap'[e.ev].listeners, e.log[Len(e.log)]) >= 1]_vars

\* C16: an emission that resolved true without being cancelled has invoked
\* exactly once every entry that was in the list of its event from its
\* start to its end: a listener of which no entry was added or removed
\* during the emission was invoked as many times as it has entries.
C16_ExactlyOnce ==
  settled.result = "true" /\ settled.had /\ ~settled.broke =>
    \A l \in Fns \ settled.gone :
      Count(settled.log, l) = Count(settled.list, l)

\* The detached emitImpl('error', ...) call of the catch block on top of
\* the stack has returned a promise that is rejected already: its first
\* listener threw.
ErrorListenerFailed ==
  /\ stack # <<>> /\ Top(stack).t = "emit" /\ Top(stack).pc = "funnel"
  /\ settled.result = "rejected" /\ settled.ev = "error"

\* Only the "error" emission id ends in this step, rejected with v: it
\* invokes no further listener, no emission is started and no other
\* emission changes.
OnlyErrorEmissionRejects(id, v) ==
  /\ settled'.result = "rejected"
  /\ settled'.ev = "error"
  /\ settled'.value = v
  /\ settled'.log = em[id].log
  /\ em' = [em EXCEPT ![id] = NoEm]
  /\ stack' = IF stack = <<>> THEN stack ELSE Pop(stack)

Started(ev, args) ==
  \/ \E j \in Ids :
       em[j].st = "free" /\ em'[j].st # "free"
         /\ em'[j].ev = ev /\ em'[j].args = args
  \/ /\ settled'.result \in {"false", "true"}
     /\ settled'.log = <<>>
     /\ settled'.ev = ev /\ settled'.args = args

\* the emitImpl calls made in this step
StartedCount ==
  Cardinality({j \in Ids : em[j].st = "free" /\ em'[j].st # "free"})
    + (IF settled'.result \in {"false", "true"} /\ settled'.log = <<>>
       THEN 1 ELSE 0)

\* an emission of "error" starts no "error" emission
ErrorNameDiffers ==
  \A id \in Ids : \A v \in Thrown :
    Handles(id, v) /\ Started("error", <<v>>) => em[id].ev # "error"

Ahead(map, e) == Len(ArrayOf(map, e)) - e.idx

\* C19: every emission settles once its listener invocations complete,
\* whatever the listeners call: the loop of emitImpl has a bound, that is,
\* no step adds to the entries an emission in flight has still to visit
\* (each invocation then leaves one entry less, and the emission settles
\* after as many invocations as it had entries ahead).
C19_EmissionSettles ==
  [][\A id \in Ids :
       em[id].st # "free" /\ em'[id].st # "free" =>
         Ahead(listenerMap', em'[id]) <= Ahead(listenerMap, em[id])]_vars

\* on(e, l, ...) is rejected in this step: no set changes and no
\* newListener emission is issued for (e, l)
Rejected(e, l) ==
  /\ \A o \in Events : SetOf(listenerMap', o) = SetOf(listenerMap, o)
  /\ ~Started("newListener", <<e, l>>)

\* on(e, l, ...) is handled as ACTIVE in this step: l is inserted at
\* passiveIdx, passiveIdx is incremented and newListener(e, l) is emitted
LikeActive(e, l) ==
  LET set == listenerMap[e]
  IN /\ listenerMap'[e].has
     /\ listenerMap'[e].listeners =
          (IF set.has THEN SpliceIn(set.listeners, set.passiveIdx, l)
           ELSE <<l>>)
     /\ listenerMap'[e].passiveIdx = (IF set.has THEN set.passiveIdx + 1 ELSE 1)
     /\ Started("newListener", <<e, l>>)

\* C20: on with a type that is none of ACTIVE, EARLY, PASSIVE, true, false
\* is rejected or handled as ACTIVE, so that newListener is never emitted
\* for a listener that was not inserted.
C20_InvalidTier ==
  [][\A e \in Events : \A l \in Fns :
       On(e, l, "other") => Rejected(e, l) \/ LikeActive(e, l)]_vars

====
